---- MODULE Spec2Model ----
(***************************************************************************)
(* A model of the rewriting forward proxy of api/rep.js: the request       *)
(* handler (URL validation, SSRF guard, upstream fetch with its timer,     *)
(* size check, content classification) and the HTML / CSS / JS rewrite     *)
(* passes.  Text is modelled character by character: a string is a         *)
(* sequence of one-character strings, and the regular expressions of the   *)
(* source are matchers over such sequences.                                *)
(***************************************************************************)
EXTENDS Integers, Sequences, FiniteSets, TLC

(***************************************************************************)
(* Characters                                                              *)
(***************************************************************************)

\* The grave accent (code point 96), which the module text cannot hold in a string.
Backtick == "BACKTICK"

\* The printable ASCII characters, code points 32..126, in order.
Ascii == <<" ","!","\"","#","$","%","&","'","(",")","*","+",",","-",".","/","0","1","2","3","4","5","6","7","8","9",":",";","<","=",">","?","@","A","B","C","D","E","F","G","H","I","J","K","L","M","N","O","P","Q","R","S","T","U","V","W","X","Y","Z","[","\\","]","^","_",Backtick,"a","b","c","d","e","f","g","h","i","j","k","l","m","n","o","p","q","r","s","t","u","v","w","x","y","z","{","|","}","~">>

\* A character outside ASCII (what a valid multi-byte escape decodes to).
NonAscii == "U+00E9"

AsciiSet == {Ascii[i] : i \in 1..Len(Ascii)}

AllChars == AsciiSet \cup {"\t", "\n", NonAscii}

\* The code point of an ASCII character of the model.
CodeOf == [c \in AsciiSet \cup {"\t", "\n"} |->
             IF c = "\t" THEN 9
             ELSE IF c = "\n" THEN 10
             ELSE 31 + (CHOOSE i \in 1..Len(Ascii) : Ascii[i] = c)]

IsUpper(c) == c \in AsciiSet /\ CodeOf[c] >= 65 /\ CodeOf[c] <= 90
IsLowerAlpha(c) == c \in AsciiSet /\ CodeOf[c] >= 97 /\ CodeOf[c] <= 122
IsAlpha(c) == IsUpper(c) \/ IsLowerAlpha(c)
IsDigit(c) == c \in AsciiSet /\ CodeOf[c] >= 48 /\ CodeOf[c] <= 57

\* String.prototype.toLowerCase, one character.
LowerChar == [c \in AllChars |-> IF IsUpper(c) THEN Ascii[CodeOf[c] + 32 - 31] ELSE c]

toLowerCase(s) == [i \in 1..Len(s) |-> LowerChar[s[i]]]

\* \s of the regular expressions.
IsSpace(c) == c \in {" ", "\t", "\n"}

HexDigits == <<"0","1","2","3","4","5","6","7","8","9","A","B","C","D","E","F">>

\* The value of a hexadecimal digit (either case), -1 for any other character.
HexVal(c) ==
  IF \E i \in 1..16 : HexDigits[i] = c \/ LowerChar[HexDigits[i]] = c
  THEN (CHOOSE i \in 1..16 : HexDigits[i] = c \/ LowerChar[HexDigits[i]] = c) - 1
  ELSE -1

(***************************************************************************)
(* String primitives                                                       *)
(***************************************************************************)

\* s.startsWith(p)
startsWith(s, p) == Len(p) <= Len(s) /\ SubSeq(s, 1, Len(p)) = p

\* s.endsWith(p)
endsWith(s, p) == Len(p) <= Len(s) /\ SubSeq(s, Len(s) - Len(p) + 1, Len(s)) = p

\* The literal p occurs in s at position i.
LitAt(s, i, p) == i >= 1 /\ i + Len(p) - 1 <= Len(s) /\ SubSeq(s, i, i + Len(p) - 1) = p

\* The literal p (given in lower case) occurs in s at position i, ignoring case.
ILitAt(s, i, p) ==
  i >= 1 /\ i + Len(p) - 1 <= Len(s) /\ toLowerCase(SubSeq(s, i, i + Len(p) - 1)) = p

\* s.includes(p)
includes(s, p) == \E i \in 1..(Len(s) + 1) : LitAt(s, i, p)

\* The suffix of s from position i.
From(s, i) == SubSeq(s, i, Len(s))

\* In(value): a value computed once and used under a name.
Let(value, In(_)) == In(value)

\* The least position >= i of s holding a character of set cs, Len(s)+1 if none.
FindChar(s, i, cs) ==
  IF \E k \in i..Len(s) : s[k] \in cs
  THEN CHOOSE k \in i..Len(s) : s[k] \in cs /\ \A m \in i..(k - 1) : s[m] \notin cs
  ELSE Len(s) + 1

\* The least position >= i of s holding a character outside cs, Len(s)+1 if none.
SkipChars(s, i, cs) ==
  IF \E k \in i..Len(s) : s[k] \notin cs
  THEN CHOOSE k \in i..Len(s) : s[k] \notin cs /\ \A m \in i..(k - 1) : s[m] \in cs
  ELSE Len(s) + 1

\* The concatenation of the strings f[lo], ..., f[hi].
RECURSIVE ConcatRange(_, _, _)
ConcatRange(f, lo, hi) ==
  IF lo > hi THEN <<>>
  ELSE IF lo = hi THEN f[lo]
  ELSE ConcatRange(f, lo, (lo + hi) \div 2) \o ConcatRange(f, ((lo + hi) \div 2) + 1, hi)

\* The concatenation of a sequence of strings.
Flatten(f) == ConcatRange(f, 1, Len(f))

SpaceChars == {" ", "\t", "\n"}

(***************************************************************************)
(* encodeURIComponent / decodeURIComponent                                 *)
(***************************************************************************)

\* The characters encodeURIComponent leaves alone besides letters and digits.
UnreservedMarks == {"-", "_", ".", "!", "~", "*", "'", "(", ")"}

\* %XX of one byte.
PercentByte(n) == <<"%", HexDigits[(n \div 16) + 1], HexDigits[(n % 16) + 1]>>

EncodeChar(c) ==
  IF IsAlpha(c) \/ IsDigit(c) \/ c \in UnreservedMarks THEN <<c>>
  ELSE IF c = NonAscii THEN PercentByte(195) \o PercentByte(169)
  ELSE PercentByte(CodeOf[c])

encodeURIComponent(s) == Flatten([i \in 1..Len(s) |-> EncodeChar(s[i])])

\* The byte an escape %XX at position i of s denotes, -1 when there is no
\* well-formed escape there.
EscapeAt(s, i) ==
  IF i + 2 <= Len(s) /\ i >= 1 /\ s[i] = "%"
  THEN Let(<<HexVal(s[i + 1]), HexVal(s[i + 2])>>,
           LAMBDA h : IF h[1] >= 0 /\ h[2] >= 0 THEN 16 * h[1] + h[2] ELSE -1)
  ELSE -1

IsContinuation(s, i) == EscapeAt(s, i) \in 128..191

\* The number of continuation bytes a UTF-8 lead byte asks for, -1 for a byte
\* that cannot start a character.
Continuations(b) ==
  IF b < 128 THEN 0
  ELSE IF b >= 194 /\ b <= 223 THEN 1
  ELSE IF b >= 224 /\ b <= 239 THEN 2
  ELSE IF b >= 240 /\ b <= 244 THEN 3
  ELSE -1

\* The character of a decoded ASCII byte (control characters other than tab
\* and line feed are outside the model's alphabet and never decoded here).
CharOfByte(b) ==
  IF b = 9 THEN "\t" ELSE IF b = 10 THEN "\n" ELSE Ascii[b - 31]

\* The escape at position i of s is the j-th continuation byte of a lead byte.
ContinuationOf(s, i, j) ==
  /\ Continuations(EscapeAt(s, i - 3 * j)) >= j
  /\ \A m \in 1..(j - 1) : IsContinuation(s, i - 3 * m)

\* The "%" at position i of s makes decodeURIComponent throw URIError: it
\* starts no escape, or a byte that is not UTF-8 where it stands.
BadEscape(s, i) ==
  Let(EscapeAt(s, i),
      LAMBDA b :
        \/ b < 0
        \/ b >= 128 /\ b <= 191 /\ ~\E j \in 1..3 : ContinuationOf(s, i, j)
        \/ b >= 192 /\ Continuations(b) < 0
        \/ \E j \in 1..Continuations(b) : ~IsContinuation(s, i + 3 * j))

DecodeThrows(s) == \E i \in 1..Len(s) : s[i] = "%" /\ BadEscape(s, i)

\* What position i of a string that decodes contributes to the result.
DecodeAt(s, i) ==
  IF s[i] = "%"
  THEN Let(EscapeAt(s, i),
           LAMBDA b : IF b < 128 THEN <<CharOfByte(b)>>
                      ELSE IF b <= 191 THEN <<>>
                      ELSE <<NonAscii>>)
  ELSE IF (i >= 2 /\ s[i - 1] = "%") \/ (i >= 3 /\ s[i - 2] = "%") THEN <<>>
  ELSE <<s[i]>>

DecodeAll(s) == Flatten([i \in 1..Len(s) |-> DecodeAt(s, i)])

\* decodeURIComponent(s): whether it returns, and what.
decodeURIComponent(s) ==
  IF DecodeThrows(s) THEN [ok |-> FALSE, val |-> <<>>]
  ELSE [ok |-> TRUE, val |-> DecodeAll(s)]

(***************************************************************************)
(* new URL(input) and new URL(input, base): the URL parser of the          *)
(* platform, for the inputs the handler and its rewrite passes give it.    *)
(* IPv6 literals are taken in compressed lower- or upper-case form (their  *)
(* hexadecimal groups are not re-compressed), and hosts are ASCII.         *)
(***************************************************************************)

\* The result of a parse that throws TypeError.
Failure ==
  [ok |-> FALSE, scheme |-> <<>>, userinfo |-> <<>>, hostname |-> <<>>, port |-> <<>>,
   pathname |-> <<>>, search |-> <<>>, hash |-> <<>>]

\* A parsed URL: scheme without ":", userinfo with its "@" (or empty), port
\* without ":" (empty for the default port), search with its "?" and hash
\* with its "#" (empty when the URL has none).
MkUrl(scheme, userinfo, hostname, port, pathname, search, hash) ==
  [ok |-> TRUE, scheme |-> scheme, userinfo |-> userinfo, hostname |-> hostname,
   port |-> port, pathname |-> pathname, search |-> search, hash |-> hash]

\* The greatest position of s holding a character outside cs, 0 if none.
LastOutside(s, cs) ==
  IF \E k \in 1..Len(s) : s[k] \notin cs
  THEN CHOOSE k \in 1..Len(s) : s[k] \notin cs /\ \A m \in (k + 1)..Len(s) : s[m] \in cs
  ELSE 0

\* The parser's first step: tabs and line feeds are removed everywhere, spaces
\* at both ends.
Strip(s) ==
  LET t == SelectSeq(s, LAMBDA c : c \notin {"\t", "\n"})
      a == SkipChars(t, 1, {" "})
  IN IF a > Len(t) THEN <<>> ELSE SubSeq(t, a, LastOutside(t, {" "}))

SchemeChars == {c \in AsciiSet : IsAlpha(c) \/ IsDigit(c) \/ c \in {"+", "-", "."}}

\* The position of the ":" ending a scheme at the start of s, 0 if s starts
\* with no scheme.
SchemeEnd(s) ==
  IF Len(s) = 0 \/ ~IsAlpha(s[1]) THEN 0
  ELSE LET k == SkipChars(s, 1, SchemeChars)
       IN IF k <= Len(s) /\ s[k] = ":" THEN k ELSE 0

\* The special schemes the model knows, with their default ports (file: is
\* never an input).
SpecialSchemes == {<<"h","t","t","p">>, <<"h","t","t","p","s">>, <<"f","t","p">>, <<"w","s">>, <<"w","s","s">>}

DefaultPort(scheme) ==
  IF scheme \in {<<"h","t","t","p">>, <<"w","s">>} THEN 80
  ELSE IF scheme \in {<<"h","t","t","p","s">>, <<"w","s","s">>} THEN 443
  ELSE IF scheme = <<"f","t","p">> THEN 21
  ELSE -1

\* Percent-encoding of the characters of set cs.
PercentEncode(s, cs) ==
  Flatten([i \in 1..Len(s) |->
             IF s[i] \in cs
             THEN (IF s[i] = NonAscii THEN PercentByte(195) \o PercentByte(169)
                   ELSE PercentByte(CodeOf[s[i]]))
             ELSE <<s[i]>>])

PathEncodeSet == {" ", "\"", "<", ">", Backtick, "{", "}", "\t", "\n", NonAscii}
QueryEncodeSet == {" ", "\"", "<", ">", "'", "\t", "\n", NonAscii}
FragmentEncodeSet == {" ", "\"", "<", ">", Backtick, "\t", "\n", NonAscii}

\* s cut at every occurrence of the character sep, from position i.
RECURSIVE SplitFrom(_, _, _)
SplitFrom(s, i, sep) ==
  LET k == FindChar(s, i, {sep})
  IN IF k > Len(s) THEN <<SubSeq(s, i, Len(s))>>
     ELSE <<SubSeq(s, i, k - 1)>> \o SplitFrom(s, k + 1, sep)

Split(s, sep) == SplitFrom(s, 1, sep)

IsSingleDot(seg) == toLowerCase(seg) \in {<<".">>, <<"%","2","e">>}
IsDoubleDot(seg) == toLowerCase(seg) \in {<<".",".">>, <<".","%","2","e">>, <<"%","2","e",".">>, <<"%","2","e","%","2","e">>}

\* The path segments left of segs[i..] after "." and ".." are resolved, acc
\* being the segments kept so far.
RECURSIVE Normalize(_, _, _)
Normalize(segs, i, acc) ==
  IF i > Len(segs) THEN acc
  ELSE LET seg == segs[i]
           last == (i = Len(segs))
       IN IF IsDoubleDot(seg)
          THEN Normalize(segs, i + 1,
                 (IF Len(acc) > 0 THEN SubSeq(acc, 1, Len(acc) - 1) ELSE acc)
                   \o (IF last THEN << <<>> >> ELSE <<>>))
          ELSE IF IsSingleDot(seg)
          THEN Normalize(segs, i + 1, acc \o (IF last THEN << <<>> >> ELSE <<>>))
          ELSE Normalize(segs, i + 1, acc \o <<PercentEncode(seg, PathEncodeSet)>>)

JoinPath(segs) == Flatten([i \in 1..Len(segs) |-> <<"/">> \o segs[i]])

BackslashToSlash(s) == [i \in 1..Len(s) |-> IF s[i] = "\\" THEN "/" ELSE s[i]]

\* The segments of a path that starts with "/" (none for the empty path).
Segments(path) == IF Len(path) = 0 THEN <<>> ELSE Split(From(path, 2), "/")

\* The path of a special URL from the segments it is made of.
PathOf(segs) ==
  LET n == Normalize(segs, 1, <<>>) IN IF Len(n) = 0 THEN <<"/">> ELSE JoinPath(n)

\* What follows the authority, cut into raw path, "?query" and "#fragment".
Tail3(rem) ==
  LET h == FindChar(rem, 1, {"#"})
      q == FindChar(SubSeq(rem, 1, h - 1), 1, {"?"})
  IN [path |-> SubSeq(rem, 1, q - 1),
      search |-> PercentEncode(SubSeq(rem, q, h - 1), QueryEncodeSet),
      hash |-> PercentEncode(From(rem, h), FragmentEncodeSet)]

\* A number of an IPv4 part in base b as [hi, lo], hi * 65536 + lo, hi capped at
\* 65536 for 2^32 and more; hi = -1 when a character is no digit of the base.
RECURSIVE ParseNum(_, _, _, _)
ParseNum(s, i, b, acc) ==
  IF i > Len(s) THEN acc
  ELSE Let(HexVal(s[i]),
           LAMBDA d :
             IF d < 0 \/ d >= b THEN [hi |-> -1, lo |-> 0]
             ELSE Let(acc.lo * b + d,
                      LAMBDA lo :
                        ParseNum(s, i + 1, b,
                                 [hi |-> IF acc.hi * b + (lo \div 65536) > 65536 THEN 65536
                                         ELSE acc.hi * b + (lo \div 65536),
                                  lo |-> lo % 65536])))

Zero32 == [hi |-> 0, lo |-> 0]

\* One part of an IPv4 address: 0x.. is hexadecimal, 0.. octal, else decimal.
ParseIPv4Part(p) ==
  LET hex == Len(p) >= 2 /\ toLowerCase(SubSeq(p, 1, 2)) = <<"0","x">>
      octal == ~hex /\ Len(p) >= 2 /\ p[1] = "0"
  IN IF Len(p) = 0 THEN [hi |-> -1, lo |-> 0]
     ELSE ParseNum(p, IF hex THEN 3 ELSE IF octal THEN 2 ELSE 1,
                   IF hex THEN 16 ELSE IF octal THEN 8 ELSE 10, Zero32)

\* The decimal digits of n >= 0.
RECURSIVE ToDecimal(_)
ToDecimal(n) ==
  IF n < 10 THEN <<Ascii[n + 17]>> ELSE ToDecimal(n \div 10) \o <<Ascii[(n % 10) + 17]>>

\* The labels of a host, a trailing empty label dropped.
Labels(h) ==
  Let(Split(h, "."),
      LAMBDA l : IF Len(l) > 1 /\ l[Len(l)] = <<>> THEN SubSeq(l, 1, Len(l) - 1) ELSE l)

\* "Ends in a number": the last label is all digits, or a hexadecimal number.
EndsInNumber(h) ==
  Let(Let(Labels(h), LAMBDA l : l[Len(l)]),
      LAMBDA last :
        /\ Len(last) > 0
        /\ \/ \A i \in 1..Len(last) : IsDigit(last[i])
           \/ /\ Len(last) >= 2 /\ toLowerCase(SubSeq(last, 1, 2)) = <<"0","x">>
              /\ \A i \in 3..Len(last) : HexVal(last[i]) >= 0)

\* The dotted-decimal address of the parsed parts v of an IPv4 address, or a
\* failure.
IPv4Of(v) ==
  LET n == Len(v)
      last == v[n]
      okLast == IF n = 1 THEN last.hi < 65536
                ELSE IF n = 2 THEN last.hi < 256
                ELSE IF n = 3 THEN last.hi = 0
                ELSE last.hi = 0 /\ last.lo < 256
      tail4 == <<last.hi \div 256, last.hi % 256, last.lo \div 256, last.lo % 256>>
  IN IF n > 4 \/ (\E i \in 1..n : v[i].hi < 0) THEN [ok |-> FALSE, val |-> <<>>]
     ELSE IF (\E i \in 1..(n - 1) : v[i].hi > 0 \/ v[i].lo > 255) \/ ~okLast
     THEN [ok |-> FALSE, val |-> <<>>]
     ELSE [ok |-> TRUE,
           val |-> Flatten([i \in 1..4 |->
                     (IF i > 1 THEN <<".">> ELSE <<>>)
                       \o ToDecimal(IF i < n THEN v[i].lo ELSE tail4[i])])]

\* The IPv4 parser.
ParseIPv4(h) == Let(Labels(h), LAMBDA l : IPv4Of([i \in 1..Len(l) |-> ParseIPv4Part(l[i])]))

ForbiddenHostChars ==
  {" ", "#", "%", "/", ":", "<", ">", "?", "@", "[", "\\", "]", "^", "|", "\t", "\n"}

\* The host parser for an IPv6 literal, given in lower case with its brackets.
ParseIPv6(h) ==
  IF /\ Len(h) >= 4 /\ h[Len(h)] = "]"
     /\ \A i \in 2..(Len(h) - 1) : HexVal(h[i]) >= 0 \/ h[i] \in {":", "."}
     /\ Cardinality({i \in 2..(Len(h) - 1) : h[i] = ":"}) >= 2
  THEN [ok |-> TRUE, val |-> h]
  ELSE [ok |-> FALSE, val |-> <<>>]

\* The host parser for a domain or an IPv4 address, percent-decoded and in
\* lower case.
ParseDomain(d) ==
  IF \E i \in 1..Len(d) : d[i] \in ForbiddenHostChars THEN [ok |-> FALSE, val |-> <<>>]
  ELSE IF EndsInNumber(d) THEN ParseIPv4(d)
  ELSE [ok |-> TRUE, val |-> d]

\* The host parser of a special URL: the serialized host, brackets of an IPv6
\* literal included, or a failure.
ParseHost(h) ==
  IF Len(h) = 0 THEN [ok |-> FALSE, val |-> <<>>]
  ELSE IF h[1] = "[" THEN ParseIPv6(toLowerCase(h))
  ELSE ParseDomain(toLowerCase(Let(decodeURIComponent(h),
                                   LAMBDA d : IF d.ok THEN d.val ELSE h)))

\* The value of the digits s[i..] as a port, from acc; -1 when a character is
\* no digit or the value is above 65535.
RECURSIVE PortValue(_, _, _)
PortValue(s, i, acc) ==
  IF i > Len(s) THEN acc
  ELSE IF ~IsDigit(s[i]) \/ acc * 10 + HexVal(s[i]) > 65535 THEN -1
  ELSE PortValue(s, i + 1, acc * 10 + HexVal(s[i]))

\* The port of a URL: its digits without leading zeros, empty for none or the
\* scheme's default.
ParsePort(s, scheme) ==
  Let(PortValue(s, 1, 0),
      LAMBDA v : IF Len(s) = 0 THEN [ok |-> TRUE, val |-> <<>>]
                 ELSE IF v < 0 THEN [ok |-> FALSE, val |-> <<>>]
                 ELSE IF v = DefaultPort(scheme) THEN [ok |-> TRUE, val |-> <<>>]
                 ELSE [ok |-> TRUE, val |-> ToDecimal(v)])

\* The last position of character c in s, 0 if none.
LastIndexOf(s, c) ==
  IF \E k \in 1..Len(s) : s[k] = c
  THEN CHOOSE k \in 1..Len(s) : s[k] = c /\ \A m \in (k + 1)..Len(s) : s[m] # c
  ELSE 0

UserinfoEncodeSet ==
  PathEncodeSet \cup {"/", ":", ";", "=", "@", "[", "\\", "]", "^", "|", "?", "#"}

\* The userinfo of a URL, with its "@", from the credentials written before
\* the "@" of the authority.
Userinfo(cred) ==
  Let(PercentEncode(cred, UserinfoEncodeSet \ {":"}),
      LAMBDA c : IF c = <<>> \/ c = <<":">> THEN <<>>
                 ELSE Let(FindChar(c, 1, {":"}),
                          LAMBDA k : SubSeq(c, 1, k - 1)
                                       \o (IF k < Len(c)
                                           THEN <<":">> \o PercentEncode(From(c, k + 1), {":"})
                                           ELSE <<>>)
                                       \o <<"@">>))

\* A special URL from its parsed parts.
AuthorityUrl(scheme, userinfo, host, port, t) ==
  IF ~host.ok \/ ~port.ok THEN Failure
  ELSE MkUrl(scheme, userinfo, host.val, port.val,
             PathOf(Segments(BackslashToSlash(t.path))), t.search, t.hash)

\* A special URL from its scheme and what follows the slashes after "scheme:":
\* authority, path, query and fragment.
ParseAuthorityOn(scheme, r) ==
  Let(FindChar(r, 1, {"/", "\\", "?", "#"}),
      LAMBDA e :
        Let(LastIndexOf(SubSeq(r, 1, e - 1), "@"),
            LAMBDA at :
              Let(SubSeq(r, at + 1, e - 1),
                  LAMBDA hostport :
                    Let(FindChar(hostport,
                                 IF Len(hostport) > 0 /\ hostport[1] = "["
                                 THEN FindChar(hostport, 1, {"]"}) + 1 ELSE 1,
                                 {":"}),
                        LAMBDA colon :
                          AuthorityUrl(scheme, Userinfo(SubSeq(r, 1, at - 1)),
                                       ParseHost(SubSeq(hostport, 1, colon - 1)),
                                       ParsePort(From(hostport, colon + 1), scheme),
                                       Tail3(From(r, e)))))))

\* A URL of a scheme that is not special: what follows "scheme:" is kept as it
\* is written (an opaque path, or //authority/path), its fragment encoded.
ParseOpaque(scheme, r) ==
  Let(FindChar(r, 1, {"#"}),
      LAMBDA h : MkUrl(scheme, <<>>, <<>>, <<>>, SubSeq(r, 1, h - 1), <<>>,
                       PercentEncode(From(r, h), FragmentEncodeSet)))

Slashes == {"/", "\\"}

\* A relative reference, cut into t, against a base: the base's authority,
\* the reference's path merged into the base's, its query and fragment.
Relative(t, base) ==
  Let(BackslashToSlash(t.path),
      LAMBDA p :
        MkUrl(base.scheme, base.userinfo, base.hostname, base.port,
              IF Len(p) = 0 THEN base.pathname
              ELSE PathOf(IF p[1] = "/" THEN Segments(p)
                          ELSE Let(Segments(base.pathname),
                                   LAMBDA b : SubSeq(b, 1, Len(b) - 1)) \o Split(p, "/")),
              IF Len(p) = 0 /\ Len(t.search) = 0 THEN base.search ELSE t.search,
              t.hash))

\* The parser on the stripped input s whose scheme ends at position k (0: it
\* has none); base is Failure when the constructor is given no base.
ParseFrom(s, k, base) ==
  LET scheme == IF k > 0 THEN toLowerCase(SubSeq(s, 1, k - 1)) ELSE base.scheme
      isSlash(i) == i <= Len(s) /\ s[i] \in Slashes
      state == IF k = 0 /\ ~base.ok THEN "failure"
               ELSE IF k > 0 /\ scheme \notin SpecialSchemes THEN "opaque"
               ELSE IF k > 0 /\ ~base.ok THEN "authority"
               ELSE IF k > 0 /\ (scheme # base.scheme \/ (isSlash(k + 1) /\ isSlash(k + 2)))
               THEN "authority"
               ELSE IF k = 0 /\ isSlash(1) /\ isSlash(2) THEN "authority"
               ELSE "relative"
  IN IF state = "failure" THEN Failure
     ELSE IF state = "opaque" THEN ParseOpaque(scheme, From(s, k + 1))
     ELSE IF state = "authority"
     THEN ParseAuthorityOn(scheme, From(s, SkipChars(s, k + 1, Slashes)))
     ELSE Relative(Tail3(From(s, k + 1)), base)

\* new URL(input, base) for a base that is a parsed http(s) URL.
ParseRelative(input, base) == Let(Strip(input), LAMBDA s : ParseFrom(s, SchemeEnd(s), base))

\* new URL(input): an absolute URL, or a failure.
ParseAbsolute(input) == ParseRelative(input, Failure)

\* url.href
href(u) ==
  IF u.scheme \in SpecialSchemes
  THEN u.scheme \o <<":","/","/">> \o u.userinfo \o u.hostname
         \o (IF Len(u.port) > 0 THEN <<":">> \o u.port ELSE <<>>)
         \o u.pathname \o u.search \o u.hash
  ELSE u.scheme \o <<":">> \o u.pathname \o u.hash

\* url.origin of a special URL
origin(u) ==
  u.scheme \o <<":","/","/">> \o u.hostname \o (IF Len(u.port) > 0 THEN <<":">> \o u.port ELSE <<>>)

(***************************************************************************)
(* The rewrite passes.  Each is String.prototype.replace with a global     *)
(* regular expression and a callback: the text is scanned from the left,   *)
(* a match is replaced by what the callback returns and the scan goes on   *)
(* after the match.                                                        *)
(***************************************************************************)

Quotes == {"\"", "'"}

\* A failed match.
NoMatch == [ok |-> FALSE, end |-> 0, new |-> <<>>]

\* A match ending at position end (inclusive), replaced by new.
Match(end, new) == [ok |-> TRUE, end |-> end, new |-> new]

\* The proxy URL with the target appended as it is, not encoded.
Proxied_Unencoded(proxyBase, absolute) == proxyBase \o absolute

\* proxyBase + encodeURIComponent(absolute)
Proxied(proxyBase, absolute) == proxyBase \o encodeURIComponent(absolute)

\* text.replace(regex, callback) from position i on, matchAt(s, k) being the
\* match of the regex at position k of s with the callback's result: the text
\* up to the leftmost match is kept, the match replaced, and the scan goes on
\* after it.
RECURSIVE ReplaceAll(_, _, _)
ReplaceAll(matchAt(_, _), s, i) ==
  IF \E k \in i..Len(s) : matchAt(s, k).ok
  THEN LET k == CHOOSE k \in i..Len(s) :
                  matchAt(s, k).ok /\ \A m \in i..(k - 1) : ~matchAt(s, m).ok
           m == matchAt(s, k)
       IN SubSeq(s, i, k - 1) \o m.new \o ReplaceAll(matchAt, s, m.end + 1)
  ELSE SubSeq(s, i, Len(s))

\* ---- HTML attributes -----------------------------------------------------

\* (?:a|img|script|link|iframe|form|source|video|audio|embed|object)
TagNames ==
  <<<<"a">>, <<"i","m","g">>, <<"s","c","r","i","p","t">>, <<"l","i","n","k">>, <<"i","f","r","a","m","e">>, <<"f","o","r","m">>, <<"s","o","u","r","c","e">>, <<"v","i","d","e","o">>,
    <<"a","u","d","i","o">>, <<"e","m","b","e","d">>, <<"o","b","j","e","c","t">>>>

\* (?:href|src|action|data|poster|srcset)
AttrNames == <<<<"h","r","e","f">>, <<"s","r","c">>, <<"a","c","t","i","o","n">>, <<"d","a","t","a">>, <<"p","o","s","t","e","r">>, <<"s","r","c","s","e","t">>>>

\* ((?:href|...)=["'])([^"']+)(["']) at position j: the attribute name, "=", a
\* quote, a non-empty run of characters that are no quote, a quote.
AttrAt(s, j) ==
  LET ns == {n \in 1..Len(AttrNames) :
               /\ ILitAt(s, j, AttrNames[n])
               /\ LitAt(s, j + Len(AttrNames[n]), <<"=">>)
               /\ j + Len(AttrNames[n]) + 1 <= Len(s)
               /\ s[j + Len(AttrNames[n]) + 1] \in Quotes}
      n == CHOOSE k \in ns : \A m \in ns : k <= m
      v == j + Len(AttrNames[n]) + 2
      q == FindChar(s, v, Quotes)
  IN IF ns = {} THEN [ok |-> FALSE, val |-> 0, close |-> 0]
     ELSE IF q > v /\ q <= Len(s) THEN [ok |-> TRUE, val |-> v, close |-> q]
     ELSE [ok |-> FALSE, val |-> 0, close |-> 0]

\* [^>]+? then the attribute: the least j in from..to where the attribute
\* matches, 0 if none.
FirstAttr(s, from, to) ==
  IF \E j \in from..to : AttrAt(s, j).ok
  THEN CHOOSE j \in from..to : AttrAt(s, j).ok /\ \A m \in from..(j - 1) : ~AttrAt(s, m).ok
  ELSE 0

\* part.trim()
trim(s) ==
  LET a == SkipChars(s, 1, SpaceChars)
  IN IF a > Len(s) THEN <<>> ELSE SubSeq(s, a, LastOutside(s, SpaceChars))

\* s.split(/\s+/) of a trimmed string.
RECURSIVE Words(_, _)
Words(s, i) ==
  LET e == FindChar(s, i, SpaceChars)
  IN IF e > Len(s) THEN <<SubSeq(s, i, Len(s))>>
     ELSE <<SubSeq(s, i, e - 1)>> \o Words(s, SkipChars(s, e, SpaceChars))

\* list.join(sep)
RECURSIVE join(_, _, _)
join(list, i, sep) ==
  IF i > Len(list) THEN <<>>
  ELSE list[i] \o (IF i < Len(list) THEN sep ELSE <<>>) \o join(list, i + 1, sep)

\* One candidate of a srcset: its URL rewritten, its descriptors kept.
SrcsetPart(part, base, proxyBase) ==
  Let(Words(trim(part), 1),
      LAMBDA w :
        Let(ParseRelative(w[1], base),
            LAMBDA u :
              [ok |-> u.ok,
               new |-> join(<<Proxied(proxyBase, href(u))>> \o Tail(w), 1, <<" ">>)]))

\* The callback's no-op rule for attribute values.
AttrTerminal(url, proxyBase) ==
  \/ startsWith(url, proxyBase)
  \/ startsWith(url, <<"d","a","t","a",":">>)
  \/ startsWith(url, <<"j","a","v","a","s","c","r","i","p","t",":">>)
  \/ startsWith(url, <<"b","l","o","b",":">>)
  \/ startsWith(url, <<"#">>)

\* The callback of the attribute pass: the new attribute value, or ok = FALSE
\* where it returns the match unchanged.
AttrValue(attrStart, url, base, proxyBase) ==
  IF AttrTerminal(url, proxyBase) THEN [ok |-> FALSE, new |-> <<>>]
  ELSE IF includes(attrStart, <<"s","r","c","s","e","t">>)
  THEN Let(Let(Split(url, ","),
               LAMBDA parts : [k \in 1..Len(parts) |-> SrcsetPart(parts[k], base, proxyBase)]),
           LAMBDA r :
             IF \E k \in 1..Len(r) : ~r[k].ok THEN [ok |-> FALSE, new |-> <<>>]
             ELSE [ok |-> TRUE, new |-> join([k \in 1..Len(r) |-> r[k].new], 1, <<","," ">>)])
  ELSE IF startsWith(url, <<"?">>) \/ startsWith(url, <<"&">>)
  THEN [ok |-> TRUE, new |-> Proxied(proxyBase, origin(base) \o base.pathname \o url)]
  ELSE IF startsWith(url, <<"/">>) /\ ~startsWith(url, <<"/","/">>)
  THEN [ok |-> TRUE, new |-> Proxied(proxyBase, origin(base) \o url)]
  ELSE Let(ParseRelative(url, base),
           LAMBDA u : IF u.ok THEN [ok |-> TRUE, new |-> Proxied(proxyBase, href(u))]
                      ELSE [ok |-> FALSE, new |-> <<>>])

\* The attribute regex at position i, with the callback's result.
AttrMatchAt(s, i, base, proxyBase) ==
  IF i > Len(s) \/ s[i] # "<" THEN NoMatch
  ELSE LET gt == FindChar(s, i, {">"})
           j(n) == FirstAttr(s, i + 1 + Len(TagNames[n]) + 1, gt - 1)
           ts == {n \in 1..Len(TagNames) : ILitAt(s, i + 1, TagNames[n]) /\ j(n) > 0}
       IN IF ts = {} THEN NoMatch
          ELSE Let(j(CHOOSE k \in ts : \A m \in ts : k <= m),
                   LAMBDA at :
                     Let(AttrAt(s, at),
                         LAMBDA a :
                           Let(AttrValue(SubSeq(s, at, a.val - 1),
                                         SubSeq(s, a.val, a.close - 1), base, proxyBase),
                               LAMBDA v :
                                 Match(a.close,
                                       IF v.ok
                                       THEN SubSeq(s, i, a.val - 1) \o v.new \o <<s[a.close]>>
                                       ELSE SubSeq(s, i, a.close)))))

\* html.replace(/(<(?:a|img|...)[^>]+?)((?:href|...)=["'])([^"']+)(["'])/gi, ...)
RewriteAttributes(html, base, proxyBase) ==
  LET at(s, i) == AttrMatchAt(s, i, base, proxyBase) IN ReplaceAll(at, html, 1)

\* ---- url(...) ------------------------------------------------------------

UrlStop == {"'", "\"", ")", " ", "\t", "\n"}

\* /url\s*\(\s*['"]?([^'")\s]+)['"]?\s*\)/gi at position i, with the callback.
UrlMatchAt(s, i, base, proxyBase) ==
  IF ~ILitAt(s, i, <<"u","r","l">>) THEN NoMatch
  ELSE LET a == SkipChars(s, i + 3, SpaceChars)
           b == SkipChars(s, a + 1, SpaceChars)
           c == IF b <= Len(s) /\ s[b] \in Quotes THEN b + 1 ELSE b
           d == FindChar(s, c, UrlStop)
           e == IF d <= Len(s) /\ s[d] \in Quotes THEN d + 1 ELSE d
           f == SkipChars(s, e, SpaceChars)
           cssUrl == SubSeq(s, c, d - 1)
       IN IF ~(a <= Len(s) /\ s[a] = "(" /\ d > c /\ f <= Len(s) /\ s[f] = ")")
          THEN NoMatch
          ELSE Match(f, Let(ParseRelative(cssUrl, base),
                            LAMBDA u :
                              IF \/ startsWith(cssUrl, proxyBase)
                                 \/ startsWith(cssUrl, <<"d","a","t","a",":">>)
                                 \/ ~u.ok
                              THEN SubSeq(s, i, f)
                              ELSE <<"u","r","l","(","'">> \o Proxied(proxyBase, href(u)) \o <<"'",")">>))

\* text.replace(/url\s*\(\s*['"]?([^'")\s]+)['"]?\s*\)/gi, ...)
RewriteCssUrls(text, base, proxyBase) ==
  LET at(s, i) == UrlMatchAt(s, i, base, proxyBase) IN ReplaceAll(at, text, 1)

\* ---- @import -------------------------------------------------------------

ImportStop == {"'", "\"", ")", ";", " ", "\t", "\n"}

\* /@import\s+(['"]?)([^'")\s;]+)\1/gi at position i, with the callback.
ImportMatchAt(s, i, base, proxyBase) ==
  IF ~ILitAt(s, i, <<"@","i","m","p","o","r","t">>) THEN NoMatch
  ELSE LET b == SkipChars(s, i + 7, SpaceChars)
           quoted == b <= Len(s) /\ s[b] \in Quotes
           quote == IF quoted THEN <<s[b]>> ELSE <<>>
           c == IF quoted THEN b + 1 ELSE b
           d == FindChar(s, c, ImportStop)
           end == IF quoted THEN d ELSE d - 1
           importUrl == SubSeq(s, c, d - 1)
       IN IF ~(b > i + 7 /\ d > c /\ (quoted => (d <= Len(s) /\ s[d] = s[b])))
          THEN NoMatch
          ELSE Match(end, Let(ParseRelative(importUrl, base),
                              LAMBDA u :
                                IF \/ startsWith(importUrl, proxyBase)
                                   \/ startsWith(importUrl, <<"d","a","t","a",":">>)
                                   \/ ~u.ok
                                THEN SubSeq(s, i, end)
                                ELSE <<"@","i","m","p","o","r","t"," ">> \o quote \o Proxied(proxyBase, href(u))
                                       \o quote))

\* css.replace(/@import\s+(['"]?)([^'")\s;]+)\1/gi, ...)
RewriteImports(css, base, proxyBase) ==
  LET at(s, i) == ImportMatchAt(s, i, base, proxyBase) IN ReplaceAll(at, css, 1)

\* The CSS branch: the @import pass, then the url() pass.
RewriteCss(css, base, proxyBase) ==
  RewriteCssUrls(RewriteImports(css, base, proxyBase), base, proxyBase)

\* ---- JavaScript module specifiers ----------------------------------------

JsQuotes == {"'", "\"", Backtick}

\* \w
IsWordChar(c) == IsAlpha(c) \/ IsDigit(c) \/ c = "_"

\* match.replace(importUrl, rep): the first occurrence of pat in s replaced
\* (rep holds no "$", so it is inserted as it is).
ReplaceFirst(s, pat, rep) ==
  IF \E k \in 1..Len(s) : LitAt(s, k, pat)
  THEN LET k == CHOOSE k \in 1..Len(s) :
                  LitAt(s, k, pat) /\ \A m \in 1..(k - 1) : ~LitAt(s, m, pat)
       IN SubSeq(s, 1, k - 1) \o rep \o From(s, k + Len(pat))
  ELSE s

\* The callback of the JS pass: whether the specifier is one it rewrites.
JsRewritable(importUrl) ==
  \/ startsWith(importUrl, <<"h","t","t","p",":","/","/">>) \/ startsWith(importUrl, <<"h","t","t","p","s",":","/","/">>)
  \/ startsWith(importUrl, <<".">>) \/ startsWith(importUrl, <<"/">>)

\* /\b(import\s*\(|from)\s*['"`]([^'"`]+)['"`]/gi at position i, with the callback.
JsMatchAt(s, i, base, proxyBase) ==
  LET boundary == i = 1 \/ ~IsWordChar(s[i - 1])
      p == SkipChars(s, i + 6, SpaceChars)
      kw == IF ILitAt(s, i, <<"i","m","p","o","r","t">>) /\ p <= Len(s) /\ s[p] = "(" THEN p + 1
            ELSE IF ILitAt(s, i, <<"f","r","o","m">>) THEN i + 4
            ELSE 0
      b == SkipChars(s, kw, SpaceChars)
      d == FindChar(s, b + 1, JsQuotes)
      importUrl == SubSeq(s, b + 1, d - 1)
      match == SubSeq(s, i, d)
  IN IF i > Len(s) \/ ~boundary \/ kw = 0 THEN NoMatch
     ELSE IF ~(b <= Len(s) /\ s[b] \in JsQuotes /\ d > b + 1 /\ d <= Len(s)) THEN NoMatch
     ELSE Match(d, Let(ParseRelative(importUrl, base),
                       LAMBDA u :
                         IF JsRewritable(importUrl) /\ u.ok
                         THEN ReplaceFirst(match, importUrl, Proxied(proxyBase, href(u)))
                         ELSE match))

\* js.replace(/\b(import\s*\(|from)\s*['"`]([^'"`]+)['"`]/gi, ...)
RewriteJs(js, base, proxyBase) ==
  LET at(s, i) == JsMatchAt(s, i, base, proxyBase) IN ReplaceAll(at, js, 1)

(***************************************************************************)
(* The handler, up to the upstream fetch: method check, form-resubmission  *)
(* reconstruction, URL validation and the SSRF guard.                      *)
(***************************************************************************)

\* A header or query parameter that is not there (undefined / null).
Absent == <<"(absent)">>

\* url.origin: "null" for a scheme that is not special.
Origin(u) == IF u.scheme \in SpecialSchemes THEN origin(u) ELSE <<"n","u","l","l">>

\* The application/x-www-form-urlencoded serializer of URLSearchParams.
FormEncode(s) ==
  Flatten([i \in 1..Len(s) |->
             IF IsAlpha(s[i]) \/ IsDigit(s[i]) \/ s[i] \in {"*", "-", ".", "_"} THEN <<s[i]>>
             ELSE IF s[i] = " " THEN <<"+">>
             ELSE IF s[i] = NonAscii THEN PercentByte(195) \o PercentByte(169)
             ELSE PercentByte(CodeOf[s[i]])])

\* new URLSearchParams(otherParams).toString(), otherParams a sequence of
\* <<key, value>> pairs.
QueryString(params) ==
  join([k \in 1..Len(params) |-> FormEncode(params[k][1]) \o <<"=">> \o FormEncode(params[k][2])],
       1, <<"&">>)

\* referer.match(/[?&]url=([^&]+)/): the captured group, Absent without a match.
RefererUrl(referer) ==
  LET at(k) == /\ referer[k] \in {"?", "&"}
               /\ LitAt(referer, k + 1, <<"u","r","l","=">>)
               /\ k + 5 <= Len(referer)
               /\ referer[k + 5] # "&"
  IN IF \E k \in 1..Len(referer) : at(k)
     THEN LET k == CHOOSE k \in 1..Len(referer) : at(k) /\ \A m \in 1..(k - 1) : ~at(m)
          IN SubSeq(referer, k + 5, FindChar(referer, k + 5, {"&"}) - 1)
     ELSE Absent

\* Lines 17-55, for a request without url and with other query parameters:
\* the status it ends with (0: it goes on) and the reconstructed url.
Reconstruct(req) ==
  LET hasQ == \E k \in 1..Len(req.otherParams) :
                req.otherParams[k][1] = <<"q">> /\ Len(req.otherParams[k][2]) > 0
      targetPath(baseUrlObj) ==
        IF hasQ /\ includes(baseUrlObj.hostname, <<"g","o","o","g","l","e",".">>) THEN <<"/","s","e","a","r","c","h">>
        ELSE IF baseUrlObj.pathname = <<"/">> THEN <<"/","s","e","a","r","c","h">>
        ELSE baseUrlObj.pathname
  IN IF req.referer = Absent THEN [status |-> 400, url |-> Absent]
     ELSE Let(RefererUrl(req.referer),
              LAMBDA m :
                IF m = Absent THEN [status |-> 400, url |-> Absent]
                ELSE Let(decodeURIComponent(m),
                         LAMBDA baseUrl :
                           IF ~baseUrl.ok THEN [status |-> 400, url |-> Absent]
                           ELSE Let(ParseAbsolute(baseUrl.val),
                                    LAMBDA baseUrlObj :
                                      IF ~baseUrlObj.ok THEN [status |-> 400, url |-> Absent]
                                      ELSE [status |-> 0,
                                            url |-> Origin(baseUrlObj) \o targetPath(baseUrlObj)
                                                      \o <<"?">>
                                                      \o QueryString(req.otherParams)])))

\* /^172\.(1[6-9]|2[0-9]|3[0-1])\./
Is172Private(h) ==
  /\ startsWith(h, <<"1","7","2",".">>) /\ Len(h) >= 7 /\ h[7] = "."
  /\ \/ h[5] = "1" /\ h[6] \in {"6", "7", "8", "9"}
     \/ h[5] = "2" /\ IsDigit(h[6])
     \/ h[5] = "3" /\ h[6] \in {"0", "1"}

\* blockedPatterns.some(p => p.test(hostname))
blockedPatterns(hostname) ==
  \/ toLowerCase(hostname) = <<"l","o","c","a","l","h","o","s","t">>
  \/ startsWith(hostname, <<"1","2","7",".">>)
  \/ startsWith(hostname, <<"1","0",".">>)
  \/ Is172Private(hostname)
  \/ startsWith(hostname, <<"1","9","2",".","1","6","8",".">>)
  \/ startsWith(hostname, <<"1","6","9",".","2","5","4",".">>)
  \/ hostname = <<":",":","1">>
  \/ startsWith(toLowerCase(hostname), <<"f","e","8","0",":">>)
  \/ startsWith(toLowerCase(hostname), <<"f","c","0","0",":">>)
  \/ startsWith(toLowerCase(hostname), <<"f","d","0","0",":">>)

blockedHosts == {<<"m","e","t","a","d","a","t","a",".","g","o","o","g","l","e",".","i","n","t","e","r","n","a","l">>, <<"1","6","9",".","2","5","4",".","1","6","9",".","2","5","4">>, <<"m","e","t","a","d","a","t","a",".","a","z","u","r","e",".","c","o","m">>}

\* The security check of lines 76-86 on parsedUrl.hostname.
Blocked(parsedUrl) ==
  LET hostname == toLowerCase(parsedUrl.hostname)
  IN blockedPatterns(hostname) \/ hostname \in blockedHosts

\* /^https?:\/\//i
HasHttpScheme(url) ==
  ILitAt(url, 1, <<"h","t","t","p",":","/","/">>) \/ ILitAt(url, 1, <<"h","t","t","p","s",":","/","/">>)

\* The validation without the check of the scheme.
Validate_WithoutSchemeCheck(url) ==
  IF url = Absent \/ url = <<>> THEN [status |-> 400, url |-> Absent, parsedUrl |-> Failure]
  ELSE Let(decodeURIComponent(url),
           LAMBDA d :
             IF ~d.ok THEN [status |-> 400, url |-> Absent, parsedUrl |-> Failure]
             ELSE Let(ParseAbsolute(d.val),
                      LAMBDA parsedUrl :
                        [status |-> IF parsedUrl.ok THEN 0 ELSE 400, url |-> d.val,
                         parsedUrl |-> parsedUrl]))

\* Lines 57-74 on the url parameter (given or reconstructed): the status it
\* ends with (0: it goes on), the decoded url and its parse.
Validate(url) ==
  IF url = Absent \/ url = <<>> THEN [status |-> 400, url |-> Absent, parsedUrl |-> Failure]
  ELSE Let(decodeURIComponent(url),
           LAMBDA d :
             IF ~d.ok THEN [status |-> 400, url |-> Absent, parsedUrl |-> Failure]
             ELSE IF ~HasHttpScheme(d.val)
             THEN [status |-> 400, url |-> d.val, parsedUrl |-> Failure]
             ELSE Let(ParseAbsolute(d.val),
                      LAMBDA parsedUrl :
                        [status |-> IF parsedUrl.ok THEN 0 ELSE 400, url |-> d.val,
                         parsedUrl |-> parsedUrl]))

\* Lines 3-86: the status the handler ends with before any fetch (0: it goes
\* on to the fetch), with the url it fetches.
Entry(req) ==
  IF req.method = <<"O","P","T","I","O","N","S">> THEN [status |-> 200, url |-> Absent, parsedUrl |-> Failure]
  ELSE IF req.method \notin {<<"G","E","T">>, <<"P","O","S","T">>}
  THEN [status |-> 405, url |-> Absent, parsedUrl |-> Failure]
  ELSE Let(IF (req.url = Absent \/ req.url = <<>>) /\ Len(req.otherParams) > 0
           THEN Reconstruct(req)
           ELSE [status |-> 0, url |-> req.url],
           LAMBDA r :
             IF r.status # 0
             THEN [status |-> r.status, url |-> Absent, parsedUrl |-> Failure]
             ELSE Let(Validate(r.url),
                      LAMBDA v :
                        IF v.status = 0 /\ Blocked(v.parsedUrl)
                        THEN [v EXCEPT !.status = 403]
                        ELSE v))

(***************************************************************************)
(* The handler after the fetch: size check, cache policy, classification   *)
(* and the branch that rewrites the body.                                  *)
(***************************************************************************)

\* 10 * 1024 * 1024
MaxBodyBytes == 10485760

\* The timeout of the fetch, in milliseconds.
Deadline == 15000

\* The greatest number the model's arithmetic holds.
MaxInt == 2147483647

\* The value of the digits s[i..e] in base b, from acc, capped at MaxInt.
RECURSIVE DigitsValue(_, _, _, _, _)
DigitsValue(s, i, e, b, acc) ==
  IF i > e THEN acc
  ELSE DigitsValue(s, i + 1, e, b,
         IF acc > (MaxInt - 15) \div b THEN MaxInt ELSE acc * b + HexVal(s[i]))

\* parseInt(s): white space, a sign, 0x for base 16, then the digits there
\* are; nan when there is none.
parseInt(s) ==
  LET a == SkipChars(s, 1, SpaceChars)
      neg == a <= Len(s) /\ s[a] = "-"
      d == IF a <= Len(s) /\ s[a] \in {"-", "+"} THEN a + 1 ELSE a
      hex == d + 1 <= Len(s) /\ toLowerCase(SubSeq(s, d, d + 1)) = <<"0","x">>
      b == IF hex THEN 16 ELSE 10
      f == IF hex THEN d + 2 ELSE d
      BaseDigits == {c \in AsciiSet : HexVal(c) \in 0..(b - 1)}
  IN Let(SkipChars(s, f, BaseDigits) - 1,
         LAMBDA e :
           IF e < f THEN [nan |-> TRUE, val |-> 0]
           ELSE [nan |-> FALSE,
                 val |-> (IF neg THEN -1 ELSE 1) * DigitsValue(s, f, e, b, 0)])

\* The size check with its bound at 11 MiB.
TooLarge_BoundAt11MiB(contentLength) ==
  /\ contentLength # Absent
  /\ Len(contentLength) > 0
  /\ Let(parseInt(contentLength), LAMBDA n : ~n.nan /\ n.val > 11 * 1024 * 1024)

\* contentLength && parseInt(contentLength) > 10 * 1024 * 1024
TooLarge(contentLength) ==
  /\ contentLength # Absent
  /\ Len(contentLength) > 0
  /\ Let(parseInt(contentLength), LAMBDA n : ~n.nan /\ n.val > MaxBodyBytes)

\* /\.(js|css|png|jpg|jpeg|gif|svg|ico|woff|woff2|ttf|otf|eot)$/i
StaticExtensions ==
  {<<".","j","s">>, <<".","c","s","s">>, <<".","p","n","g">>, <<".","j","p","g">>, <<".","j","p","e","g">>, <<".","g","i","f">>, <<".","s","v","g">>, <<".","i","c","o">>, <<".","w","o","f","f">>,
   <<".","w","o","f","f","2">>, <<".","t","t","f">>, <<".","o","t","f">>, <<".","e","o","t">>}

isStatic(pathname) == \E x \in StaticExtensions : endsWith(toLowerCase(pathname), x)

\* The Cache-Control header of lines 141-147.
CacheControl(pathname, contentType) ==
  IF isStatic(pathname) THEN <<"p","u","b","l","i","c",","," ","m","a","x","-","a","g","e","=","3","6","0","0",","," ","s","-","m","a","x","a","g","e","=","3","6","0","0">>
  ELSE IF includes(contentType, <<"t","e","x","t","/","h","t","m","l">>) THEN <<"p","u","b","l","i","c",","," ","m","a","x","-","a","g","e","=","3","0","0",","," ","s","-","m","a","x","a","g","e","=","3","0","0">>
  ELSE <<"p","u","b","l","i","c",","," ","m","a","x","-","a","g","e","=","1","8","0","0",","," ","s","-","m","a","x","a","g","e","=","1","8","0","0">>

\* `${protocol}://${req.headers.host}/api/rep?url=`
ProxyBaseOf(req) ==
  (IF req.proto = Absent THEN <<"h","t","t","p","s">> ELSE req.proto) \o <<":","/","/">> \o req.host \o <<"/","a","p","i","/","r","e","p","?","u","r","l","=">>

\* html.replace(/<base\s+[^>]*>/gi, '') at position i.
BaseTagAt(s, i) ==
  LET gt == FindChar(s, i + 5, {">"})
  IN IF ILitAt(s, i, <<"<","b","a","s","e">>) /\ i + 5 <= Len(s) /\ s[i + 5] \in SpaceChars /\ gt <= Len(s)
     THEN Match(gt, <<>>)
     ELSE NoMatch

RemoveBaseTags(html) == ReplaceAll(BaseTagAt, html, 1)

\* The injected script, abridged: its opening, the four substitution points of
\* the template, the head of rewriteUrl and its closing lines.
Shim(base, proxyBase) ==
  <<"\n","<","s","c","r","i","p","t",">","\n","(","f","u","n","c","t","i","o","n","(",")"," ","{","\n"," "," ","c","o","n","s","t"," ","P","R","O","X","Y","_","B","A","S","E"," ","="," ","'">> \o proxyBase
    \o <<"'",";","\n"," "," ","c","o","n","s","t"," ","O","R","I","G","I","N","A","L","_","U","R","L"," ","="," ","'">> \o href(base)
    \o <<"'",";","\n"," "," ","c","o","n","s","t"," ","O","R","I","G","I","N","A","L","_","O","R","I","G","I","N"," ","="," ","'">> \o Origin(base)
    \o <<"'",";","\n"," "," ","c","o","n","s","t"," ","O","R","I","G","I","N","A","L","_","P","A","T","H","N","A","M","E"," ","="," ","'">> \o base.pathname
    \o <<"'",";","\n"," "," ","f","u","n","c","t","i","o","n"," ","r","e","w","r","i","t","e","U","r","l","(","u","r","l","S","t","r",")"," ","{","\n"," "," "," "," ","i","f"," ","(","!","u","r","l","S","t","r"," ","|","|"," ","u","r","l","S","t","r",".","s","t","a","r","t","s","W","i","t","h","(","P","R","O","X","Y","_","B","A","S","E",")",")"," ","{","\n"," "," "," "," "," "," ","r","e","t","u","r","n"," ","u","r","l","S","t","r",";","\n"," "," "," "," ","}","\n"," "," ","}","\n","}",")","(",")",";","\n","<","/","s","c","r","i","p","t",">">>

\* html.replace(/(<head[^>]*>)/i, `$1<shim>`): after the first <head...> only.
InjectShim(html, base, proxyBase) ==
  LET at(k) == ILitAt(html, k, <<"<","h","e","a","d">>) /\ FindChar(html, k + 5, {">"}) <= Len(html)
  IN IF \E k \in 1..Len(html) : at(k)
     THEN LET k == CHOOSE k \in 1..Len(html) : at(k) /\ \A m \in 1..(k - 1) : ~at(m)
              gt == FindChar(html, k + 5, {">"})
          IN SubSeq(html, 1, gt) \o Shim(base, proxyBase) \o From(html, gt + 1)
     ELSE html

\* The HTML branch, lines 152-467.
RewriteHtml(html, base, proxyBase) ==
  RewriteCssUrls(
    RewriteAttributes(InjectShim(RemoveBaseTags(html), base, proxyBase), base, proxyBase),
    base, proxyBase)

\* The branch the handler takes for a response (lines 152, 470, 507).
Strategy(contentType, base) ==
  IF includes(contentType, <<"t","e","x","t","/","h","t","m","l">>) THEN "html"
  ELSE IF includes(contentType, <<"t","e","x","t","/","c","s","s">>) \/ endsWith(base.pathname, <<".","c","s","s">>) THEN "css"
  ELSE IF \/ includes(contentType, <<"j","a","v","a","s","c","r","i","p","t">>) \/ includes(contentType, <<"e","c","m","a","s","c","r","i","p","t">>)
          \/ endsWith(base.pathname, <<".","j","s">>)
  THEN "js"
  ELSE "passthrough"

\* The body the handler sends for the text of the buffer it read.
Rewrite(strategy, text, base, proxyBase) ==
  IF strategy = "html" THEN RewriteHtml(text, base, proxyBase)
  ELSE IF strategy = "css" THEN RewriteCss(text, base, proxyBase)
  ELSE IF strategy = "js" THEN RewriteJs(text, base, proxyBase)
  ELSE text

\* The Content-Type the handler sends.
ResponseType(strategy, contentType) ==
  IF strategy = "html" THEN <<"t","e","x","t","/","h","t","m","l",";"," ","c","h","a","r","s","e","t","=","u","t","f","-","8">>
  ELSE IF strategy = "css" THEN <<"t","e","x","t","/","c","s","s",";"," ","c","h","a","r","s","e","t","=","u","t","f","-","8">>
  ELSE IF strategy = "js" THEN <<"a","p","p","l","i","c","a","t","i","o","n","/","j","a","v","a","s","c","r","i","p","t",";"," ","c","h","a","r","s","e","t","=","u","t","f","-","8">>
  ELSE contentType

(***************************************************************************)
(* The handler as a state machine: one request, the fetch it makes with    *)
(* its redirect hops, the timer of the abort signal, and the response.     *)
(***************************************************************************)

VARIABLES
  pc,           \* "start", "fetch" (awaiting fetch), "body" (awaiting arrayBuffer), "done"
  req,          \* the request being handled
  status,       \* the status sent, 0 while none is
  resType,      \* the Content-Type sent
  resBody,      \* the body sent: [text, pad]
  cacheControl, \* the Cache-Control header set
  timer,        \* "idle", "armed", "cleared", "fired"
  now,          \* milliseconds since the handler was entered
  connections,  \* the hostnames the fetch connected to, in order
  current,      \* the URL of the hop the fetch is at
  upstream,     \* the upstream response whose headers arrived
  bodyStarted,  \* response.arrayBuffer() was called
  doc,          \* the document a rewrite is applied to
  text,         \* its text after the passes made so far
  prev,         \* its text before the latest pass
  passes        \* the number of passes made

handlerVars ==
  <<pc, req, status, resType, resBody, cacheControl, timer, now, connections, current,
    upstream, bodyStarted>>

rewriteVars == <<doc, text, prev, passes>>

vars == <<handlerVars, rewriteVars>>

\* ---- bounds ---------------------------------------------------------------

\* The redirect hops followed in one fetch.
MaxRedirects == 2

\* The span of time observed, in steps of TickMs.
MaxTicks == 4

TickMs == 5000

\* ---- the requests and the upstream's answers ------------------------------

Request(method, url, otherParams, referer) ==
  [method |-> method, url |-> url, otherParams |-> otherParams, referer |-> referer,
   host |-> <<"p">>, proto |-> Absent]

UrlParams ==
  {<<"h","t","t","p",":","/","/","e","x","a","m","p","l","e",".","c","o","m","/","p","a","g","e">>, <<"h","t","t","p",":","/","/","x",".","c","o","m","/","a","/","b","/">>, <<"h","t","t","p","s",":","/","/","c","d","n",".","e","x","a","m","p","l","e",".","c","o","m","/","a","p","p",".","j","s">>,
   <<"h","t","t","p","%","3","A","%","2","F","%","2","F","e","x","a","m","p","l","e",".","c","o","m","%","2","F","s","t","y","l","e",".","c","s","s">>, <<"H","T","T","P",":","/","/","E","x","a","m","p","l","e",".","C","O","M","/">>,
   <<"h","t","t","p",":","/","/","[",":",":","1","]","/">>, <<"h","t","t","p",":","/","/","[","f","e","8","0",":",":","1","]","/">>, <<"h","t","t","p",":","/","/","[","F","D","0","0",":",":","1","]","/">>, <<"h","t","t","p",":","/","/","[","f","c","0","0",":",":","2","]","/">>,
   <<"h","t","t","p",":","/","/","1","2","7",".","0",".","0",".","1","/">>, <<"h","t","t","p",":","/","/","l","o","c","a","l","h","o","s","t","/">>, <<"h","t","t","p",":","/","/","L","O","C","A","L","H","O","S","T",":","8","0","8","0","/","x">>,
   <<"h","t","t","p",":","/","/","1","0",".","0",".","0",".","5","/">>, <<"h","t","t","p",":","/","/","1","7","2",".","1","6",".","0",".","1","/">>, <<"h","t","t","p",":","/","/","1","7","2",".","3","2",".","0",".","1","/">>,
   <<"h","t","t","p",":","/","/","1","9","2",".","1","6","8",".","1",".","1","/">>, <<"h","t","t","p",":","/","/","1","6","9",".","2","5","4",".","1","6","9",".","2","5","4","/","l","a","t","e","s","t","/","m","e","t","a","-","d","a","t","a">>,
   <<"h","t","t","p",":","/","/","M","E","T","A","D","A","T","A",".","g","o","o","g","l","e",".","i","n","t","e","r","n","a","l","/">>, <<"h","t","t","p",":","/","/","m","e","t","a","d","a","t","a",".","a","z","u","r","e",".","c","o","m","/">>,
   <<"h","t","t","p",":","/","/","2","1","3","0","7","0","6","4","3","3","/">>, <<"h","t","t","p",":","/","/","0","x","7","f",".","1","/">>,
   <<"/","/","e","x","a","m","p","l","e",".","c","o","m","/","x">>, <<"/","r","e","l","a","t","i","v","e","/","p","a","t","h">>, <<"e","x","a","m","p","l","e",".","c","o","m">>, <<"f","t","p",":","/","/","e","x","a","m","p","l","e",".","c","o","m","/">>,
   <<"j","a","v","a","s","c","r","i","p","t",":","a","l","e","r","t","(","1",")">>, <<"%","E","0","%","A","4","%","A">>, <<"%","z","z">>, <<"h","t","t","p",":","/","/">>, <<"h","t","t","p",":","/","/","a"," ","b","/">>,
   <<"h","t","t","p","s",":","/","/","e","x","a","m","p","l","e",".","c","o","m",":","9","9","9","9","9","/">>, <<"h","t","t","p",":","/","/","[",":",":","1","/">>}

Requests ==
  {Request(<<"G","E","T">>, u, <<>>, Absent) : u \in UrlParams}
    \cup {Request(<<"P","O","S","T">>, u, <<<<<<"q">>, <<"a"," ","b">>>>>>, Absent) :
            u \in {<<"h","t","t","p",":","/","/","e","x","a","m","p","l","e",".","c","o","m","/","p","a","g","e">>, <<"h","t","t","p",":","/","/","1","2","7",".","0",".","0",".","1","/">>, <<"/","r","e","l","a","t","i","v","e","/","p","a","t","h">>,
                   <<"h","t","t","p",":","/","/","[",":",":","1","]","/">>, <<"%","z","z">>}}
    \cup {Request(<<"O","P","T","I","O","N","S">>, Absent, <<>>, Absent),
          Request(<<"P","U","T">>, <<"h","t","t","p",":","/","/","e","x","a","m","p","l","e",".","c","o","m","/","p","a","g","e">>, <<>>, Absent),
          Request(<<"G","E","T">>, Absent, <<>>, Absent),
          Request(<<"G","E","T">>, <<>>, <<>>, Absent),
          Request(<<"G","E","T">>, Absent, <<<<<<"q">>, <<"a"," ","b">>>>>>, Absent),
          Request(<<"G","E","T">>, Absent, <<<<<<"q">>, <<"a"," ","b">>>>>>, <<"h","t","t","p","s",":","/","/","p","/">>),
          Request(<<"G","E","T">>, Absent, <<<<<<"q">>, <<"a"," ","b">>>>>>,
                  <<"h","t","t","p","s",":","/","/","p","/","a","p","i","/","r","e","p","?","u","r","l","=","h","t","t","p","%","3","A","%","2","F","%","2","F","w","w","w",".","g","o","o","g","l","e",".","c","o","m","%","2","F">>),
          Request(<<"G","E","T">>, <<>>, <<<<<<"a">>, <<"1">>>>, <<<<"b">>, <<"&">>>>>>,
                  <<"h","t","t","p","s",":","/","/","p","/","a","p","i","/","r","e","p","?","u","r","l","=","h","t","t","p","%","3","A","%","2","F","%","2","F","e","x","a","m","p","l","e",".","c","o","m","%","2","F","f","o","r","m">>),
          Request(<<"G","E","T">>, Absent, <<<<<<"i","d">>, <<"7">>>>>>,
                  <<"h","t","t","p","s",":","/","/","p","/","a","p","i","/","r","e","p","?","u","r","l","=","h","t","t","p","%","3","A","%","2","F","%","2","F","1","2","7",".","0",".","0",".","1","%","2","F","a","d","m","i","n">>),
          [Request(<<"G","E","T">>, <<"h","t","t","p",":","/","/","e","x","a","m","p","l","e",".","c","o","m","/","p","a","g","e">>, <<>>, Absent)
             EXCEPT !.proto = <<"h","t","t","p">>]}

\* An upstream response: its Content-Length and Content-Type headers (Absent
\* when not sent) and its body, text followed by pad bytes of filler.
Response(contentLength, contentType, body, pad) ==
  [contentLength |-> contentLength, contentType |-> contentType, text |-> body, pad |-> pad]

NoResponse == Response(Absent, Absent, <<>>, 0)

Responses ==
  {Response(Absent, <<"t","e","x","t","/","h","t","m","l",";"," ","c","h","a","r","s","e","t","=","u","t","f","-","8">>,
            <<"<","h","t","m","l",">","<","h","e","a","d",">","<","b","a","s","e"," ","h","r","e","f","=","\"","/","b","/","\"",">","<","/","h","e","a","d",">","<","a"," ","h","r","e","f","=","\"","/","p","a","t","h","?","q","=","1","\"",">","l","<","/","a",">","<","/","h","t","m","l",">">>, 0),
   Response(<<"1","8">>, <<"t","e","x","t","/","c","s","s">>, <<"@","i","m","p","o","r","t"," ","\"","f","o","o",".","c","s","s","\"",";">>, 0),
   Response(<<"2","0">>, <<"a","p","p","l","i","c","a","t","i","o","n","/","j","a","v","a","s","c","r","i","p","t">>, <<"i","m","p","o","r","t"," ","\"",".","/","u","t","i","l","s",".","j","s","\"",";">>, 0),
   Response(Absent, Absent, <<"a","{","b",":","u","r","l","(","i",".","p","n","g",")","}">>, 0),
   Response(<<"1","0","4","8","5","7","6","0">>, <<"a","p","p","l","i","c","a","t","i","o","n","/","o","c","t","e","t","-","s","t","r","e","a","m">>, <<>>, 10485760),
   Response(<<"1","0","4","8","5","7","6","1">>, <<"t","e","x","t","/","h","t","m","l">>, <<"<","p",">","b","i","g","<","/","p",">">>, 10485751),
   Response(<<"1","1","5","3","4","3","3","6">>, <<"i","m","a","g","e","/","p","n","g">>, <<>>, 11534336),
   Response(<<" ","0","x","B","0","0","0","0","0">>, <<"v","i","d","e","o","/","m","p","4">>, <<>>, 11534336),
   Response(Absent, <<"i","m","a","g","e","/","p","n","g">>, <<>>, 11534336),
   Response(<<"1","0","2","4">>, <<"v","i","d","e","o","/","m","p","4">>, <<>>, 11534336),
   Response(<<"c","h","u","n","k","e","d">>, <<"t","e","x","t","/","p","l","a","i","n">>, <<"h","e","l","l","o">>, 0)}

\* The Location headers a hop may answer with.
Locations == {<<"h","t","t","p",":","/","/","1","2","7",".","0",".","0",".","1","/","a","d","m","i","n">>, <<"/","m","o","v","e","d",".","c","s","s">>}

BodyLength(r) == Len(r.text) + r.pad

NoDoc ==
  [kind |-> "none", text |-> <<>>, base |-> Failure, proxyBase |-> <<>>, parts |-> <<>>]

NoBody == [text |-> <<>>, pad |-> 0]

Init ==
  /\ pc = "start"
  /\ req \in Requests
  /\ status = 0
  /\ resType = Absent
  /\ resBody = NoBody
  /\ cacheControl = Absent
  /\ timer = "idle"
  /\ now = 0
  /\ connections = <<>>
  /\ current = Failure
  /\ upstream = NoResponse
  /\ bodyStarted = FALSE
  /\ doc = NoDoc
  /\ text = <<>>
  /\ prev = <<>>
  /\ passes = 0

\* res.status(s).send(...) for the statuses that carry a plain message.
Respond(s) ==
  /\ pc' = "done"
  /\ status' = s

\* Lines 3-116: the handler from its entry to the call of fetch.
HandleRequest ==
  /\ pc = "start"
  /\ \E e \in {Entry(req)} :
       IF e.status # 0
       THEN /\ Respond(e.status)
            /\ UNCHANGED <<timer, connections, current>>
       ELSE /\ pc' = "fetch"
            /\ timer' = "armed"
            /\ connections' = <<e.parsedUrl.hostname>>
            /\ current' = e.parsedUrl
            /\ UNCHANGED status
  /\ UNCHANGED <<req, resType, resBody, cacheControl, now, upstream, bodyStarted, rewriteVars>>

\* redirect: "follow": the fetch goes to the Location a hop answers with,
\* resolved against the hop's URL.
FollowRedirect(location) ==
  /\ pc = "fetch"
  /\ Len(connections) <= MaxRedirects
  /\ \E next \in {ParseRelative(location, current)} :
       /\ next.ok
       /\ next.scheme \in {<<"h","t","t","p">>, <<"h","t","t","p","s">>}
       /\ current' = next
       /\ connections' = Append(connections, next.hostname)
  /\ UNCHANGED <<pc, req, status, resType, resBody, cacheControl, timer, now, upstream,
                 bodyStarted, rewriteVars>>

\* Lines 116-149: fetch resolves with the headers of r; the timer is cleared,
\* the declared length checked, the cache policy set and the body awaited.
ReceiveHeaders(r) ==
  /\ pc = "fetch"
  /\ timer' = "cleared"
  /\ upstream' = r
  /\ IF TooLarge(r.contentLength)
     THEN /\ Respond(413)
          /\ UNCHANGED <<cacheControl, bodyStarted>>
     ELSE /\ pc' = "body"
          /\ cacheControl' = CacheControl(current.pathname,
                                          IF r.contentType = Absent THEN <<>> ELSE r.contentType)
          /\ bodyStarted' = TRUE
          /\ UNCHANGED status
  /\ UNCHANGED <<req, resType, resBody, now, connections, current, rewriteVars>>

\* Lines 149-536: the body has arrived; it is rewritten by its class and sent.
ReceiveBody ==
  /\ pc = "body"
  /\ LET contentType == IF upstream.contentType = Absent THEN <<>> ELSE upstream.contentType
         base == [current EXCEPT !.hash = <<>>]
     IN \E strategy \in {Strategy(contentType, base)} :
          /\ resType' = ResponseType(strategy, contentType)
          /\ resBody' = [text |-> Rewrite(strategy, upstream.text, base, ProxyBaseOf(req)),
                         pad |-> upstream.pad]
  /\ Respond(200)
  /\ UNCHANGED <<req, cacheControl, timer, now, connections, current, upstream, bodyStarted,
                 rewriteVars>>

\* Lines 538-544: fetch or arrayBuffer rejects with an error other than the
\* abort.
FetchFails ==
  /\ pc \in {"fetch", "body"}
  /\ Respond(500)
  /\ UNCHANGED <<req, resType, resBody, cacheControl, timer, now, connections, current,
                 upstream, bodyStarted, rewriteVars>>

\* Line 95: the timer fires and aborts the signal; a pending fetch rejects
\* with AbortError and the handler answers 504.
Timeout ==
  /\ timer = "armed"
  /\ now >= Deadline
  /\ timer' = "fired"
  /\ IF pc \in {"fetch", "body"} THEN Respond(504) ELSE UNCHANGED <<pc, status>>
  /\ UNCHANGED <<req, resType, resBody, cacheControl, now, connections, current, upstream,
                 bodyStarted, rewriteVars>>

\* Time passes while the handler waits or its timer is armed; a due timer
\* fires before more time passes.
Tick ==
  /\ pc \in {"fetch", "body"} \/ timer = "armed"
  /\ ~(timer = "armed" /\ now >= Deadline)
  /\ now < MaxTicks * TickMs
  /\ now' = now + TickMs
  /\ UNCHANGED <<pc, req, status, resType, resBody, cacheControl, timer, connections, current,
                 upstream, bodyStarted, rewriteVars>>

Next ==
  \/ HandleRequest
  \/ \E location \in Locations : FollowRedirect(location)
  \/ \E r \in Responses : ReceiveHeaders(r)
  \/ ReceiveBody
  \/ FetchFails
  \/ Timeout
  \/ Tick

Spec == Init /\ [][Next]_vars

(***************************************************************************)
(* The rewrite branches on their own: a document of one of the three       *)
(* classes, a base and a proxy base, and the branch applied to the         *)
(* document and again to its own output.                                   *)
(***************************************************************************)

\* The times a branch is applied to one document.
MaxPasses == 2

\* A document of class kind with the URL it was fetched from; parts lists,
\* for a document made from them, its references as triples of strings.
Doc(kind, body, baseUrl, parts) ==
  [kind |-> kind, text |-> body, base |-> ParseAbsolute(baseUrl),
   proxyBase |-> <<"h","t","t","p","s",":","/","/","p","/","a","p","i","/","r","e","p","?","u","r","l","=">>, parts |-> parts]

\* The tag the attributes parts are written on in the documents below.
TagOf(parts) ==
  IF \E k \in 1..Len(parts) : parts[k][1] = <<"p","o","s","t","e","r">> THEN <<"v","i","d","e","o">>
  ELSE IF parts[1][1] = <<"h","r","e","f">> THEN <<"a">>
  ELSE IF parts[1][1] = <<"a","c","t","i","o","n">> THEN <<"f","o","r","m">>
  ELSE IF parts[1][1] = <<"d","a","t","a">> THEN <<"o","b","j","e","c","t">>
  ELSE <<"i","m","g">>

\* <tag name="url suffix" ...>: one tag with the attributes parts, each a
\* triple of name, URL and what follows the URL in the value.
RenderTag(parts) ==
  <<"<">> \o TagOf(parts)
    \o Flatten([k \in 1..Len(parts) |->
                  <<" ">> \o parts[k][1] \o <<"=","\"">> \o parts[k][2] \o parts[k][3] \o <<"\"">>])
    \o <<">">>

Attributes ==
  {<<<<"h","r","e","f">>, <<"/","p","a","t","h","?","q","=","1">>, <<>>>>,
   <<<<"s","r","c">>, <<"a",".","p","n","g">>, <<>>>>,
   <<<<"s","r","c","s","e","t">>, <<"b",".","p","n","g">>, <<" ","2","x">>>>,
   <<<<"p","o","s","t","e","r">>, <<".",".","/","p",".","j","p","g">>, <<>>>>,
   <<<<"a","c","t","i","o","n">>, <<"?","q","=","1">>, <<>>>>,
   <<<<"d","a","t","a">>, <<"/","/","c","d","n",".","e","x","a","m","p","l","e",".","c","o","m","/","o",".","s","w","f">>, <<>>>>,
   <<<<"h","r","e","f">>, <<"#","t","o","p">>, <<>>>>,
   <<<<"s","r","c">>, <<"d","a","t","a",":","i","m","a","g","e","/","p","n","g",";","b","a","s","e","6","4",",","A","A","A","A">>, <<>>>>,
   <<<<"h","r","e","f">>, <<"h","t","t","p","s",":","/","/","p","/","a","p","i","/","r","e","p","?","u","r","l","=","h","t","t","p","%","3","A","%","2","F","%","2","F","e","x","a","m","p","l","e",".","c","o","m","%","2","F","x">>, <<>>>>,
   <<<<"s","r","c","s","e","t">>, <<"h","t","t","p","s",":","/","/","p","/","a","p","i","/","r","e","p","?","u","r","l","=","h","t","t","p","%","3","A","%","2","F","%","2","F","e","x","a","m","p","l","e",".","c","o","m","%","2","F","c",".","p","n","g">>, <<" ","1","x">>>>}

TagDocs ==
  {Doc("html", RenderTag(parts), <<"h","t","t","p",":","/","/","e","x","a","m","p","l","e",".","c","o","m","/","p","a","g","e">>, parts) :
     parts \in {<<a>> : a \in Attributes}
                 \cup {p \in Attributes \X Attributes :
                         /\ p[1][1] # p[2][1]
                         /\ {p[1][1], p[2][1]} \subseteq {<<"s","r","c">>, <<"s","r","c","s","e","t">>, <<"p","o","s","t","e","r">>}}}

HtmlDocs ==
  TagDocs
    \cup {Doc("html", body, <<"h","t","t","p",":","/","/","e","x","a","m","p","l","e",".","c","o","m","/","p","a","g","e">>, <<>>) :
            body \in {<<"<","h","t","m","l",">","<","h","e","a","d",">","<","b","a","s","e"," ","h","r","e","f","=","\"","/","b","/","\"",">","<","/","h","e","a","d",">","<","a"," ","h","r","e","f","=","\"","/","p","a","t","h","?","q","=","1","\"",">","l","<","/","a",">","<","/","h","t","m","l",">">>,
                      <<"<","I","M","G"," ","S","R","C","=","'","x",".","p","n","g","'",">","<","p"," ","s","t","y","l","e","=","\"","b","a","c","k","g","r","o","u","n","d",":","u","r","l","(","b","g",".","p","n","g",")","\"",">">>,
                      <<"<","i","m","g"," ","s","r","c","s","e","t","=","\"","a",".","p","n","g"," ","1","x",","," ","h","t","t","p","s",":","/","/","p","/","a","p","i","/","r","e","p","?","u","r","l","=","h","t","t","p","%","3","A","%","2","F","%","2","F","e","x","a","m","p","l","e",".","c","o","m","%","2","F","b",".","p","n","g"," ","2","x","\"",">">>,
                      <<"<","i","m","g"," ","s","r","c","s","e","t","=","\"","a",".","p","n","g"," ","1","x",","," ","h","t","t","p","s",":","/","/","p","/","a","p","i","/","r","e","p","?","u","r","l","=","h","t","t","p","%","3","A","%","2","F","%","2","F","e","x","a","m","p","l","e",".","c","o","m","%","2","F","b",".","p","n","g"," ","2","x"," ","u","r","l","(","x",")",">">>,
                      <<"<","s","t","y","l","e",">","a","{","b","a","c","k","g","r","o","u","n","d",":","u","r","l","(","'","h","t","t","p","s",":","/","/","p","/","a","p","i","/","r","e","p","?","u","r","l","=","h","t","t","p","%","3","A","%","2","F","%","2","F","e","x","a","m","p","l","e",".","c","o","m","%","2","F","i",".","p","n","g","'",")","}","<","/","s","t","y","l","e",">">>}}

CssDocs ==
  {Doc("css", body, <<"h","t","t","p",":","/","/","x",".","c","o","m","/","a","/","b","/">>, <<>>) :
     body \in {<<"@","i","m","p","o","r","t"," ","\"","f","o","o",".","c","s","s","\"">>, <<"@","i","m","p","o","r","t"," ","'","f","o","o",".","c","s","s","'">>, <<"@","i","m","p","o","r","t"," ","f","o","o",".","c","s","s",";">>,
               <<"@","i","m","p","o","r","t"," ","\"","/","a","b","s",".","c","s","s","\"",";">>, <<"@","i","m","p","o","r","t"," ","u","r","l","(","f","o","o",".","c","s","s",")",";">>,
               <<"@","i","m","p","o","r","t"," ","\"","h","t","t","p","s",":","/","/","p","/","a","p","i","/","r","e","p","?","u","r","l","=","h","t","t","p","%","3","A","%","2","F","%","2","F","x",".","c","o","m","%","2","F","a","%","2","F","b","%","2","F","f","o","o",".","c","s","s","\"",";">>,
               <<"a","{","b","a","c","k","g","r","o","u","n","d",":","u","r","l","("," ","\"",".",".","/","i",".","p","n","g","\""," ",")","}">>, <<"a","{","b","a","c","k","g","r","o","u","n","d",":","u","r","l","(","d","a","t","a",":","i","m","a","g","e","/","g","i","f",";","b","a","s","e","6","4",",","R","0",")","}">>}}

\* An import of specifier spec in one of the three forms, with its quote.
RenderImport(form, spec, quote) ==
  IF form = <<"d","y","n","a","m","i","c">> THEN <<"c","o","n","s","t"," ","m"," ","="," ","i","m","p","o","r","t","(">> \o quote \o spec \o quote \o <<")",";">>
  ELSE IF form = <<"s","t","a","t","i","c">> THEN <<"i","m","p","o","r","t"," ","m"," ","f","r","o","m"," ">> \o quote \o spec \o quote \o <<";">>
  ELSE <<"i","m","p","o","r","t"," ">> \o quote \o spec \o quote \o <<";">>

Specifiers ==
  {<<"l","o","d","a","s","h">>, <<"@","s","c","o","p","e","/","p","k","g">>, <<".","/","u","t","i","l","s",".","j","s">>, <<".",".","/","l","i","b","/","a",".","j","s">>, <<"/","a","b","s",".","j","s">>,
   <<"h","t","t","p","s",":","/","/","c","d","n",".","e","x","a","m","p","l","e",".","c","o","m","/","m",".","j","s">>, <<"h","t","t","p",":","/","/","c","d","n",".","e","x","a","m","p","l","e",".","c","o","m","/","m",".","j","s">>}

JsDocs ==
  {Doc("js", RenderImport(form, spec, quote), <<"h","t","t","p",":","/","/","e","x","a","m","p","l","e",".","c","o","m","/","j","s","/","a","p","p",".","j","s">>,
       <<<<form, spec, quote>>>>) :
     form \in {<<"d","y","n","a","m","i","c">>, <<"s","t","a","t","i","c">>, <<"s","i","d","e","-","e","f","f","e","c","t">>}, spec \in Specifiers,
     quote \in {<<"\"">>, <<"'">>}}

Docs == HtmlDocs \cup CssDocs \cup JsDocs

InitRewrite ==
  /\ doc \in Docs
  /\ text = doc.text
  /\ prev = doc.text
  /\ passes = 0
  /\ pc = "idle"
  /\ req = Request(<<"G","E","T">>, Absent, <<>>, Absent)
  /\ status = 0
  /\ resType = Absent
  /\ resBody = NoBody
  /\ cacheControl = Absent
  /\ timer = "idle"
  /\ now = 0
  /\ connections = <<>>
  /\ current = Failure
  /\ upstream = NoResponse
  /\ bodyStarted = FALSE

\* The text becomes what a branch makes of it.
Becomes(new) ==
  /\ passes < MaxPasses
  /\ prev' = text
  /\ text' = new
  /\ passes' = passes + 1
  /\ UNCHANGED <<doc, handlerVars>>

\* Lines 152-467 on the document.
ApplyHtml == doc.kind = "html" /\ Becomes(RewriteHtml(text, doc.base, doc.proxyBase))

\* Lines 470-504 on the document.
ApplyCss == doc.kind = "css" /\ Becomes(RewriteCss(text, doc.base, doc.proxyBase))

\* Lines 507-532 on the document.
ApplyJs == doc.kind = "js" /\ Becomes(RewriteJs(text, doc.base, doc.proxyBase))

NextRewrite == ApplyHtml \/ ApplyCss \/ ApplyJs

SpecRewrite == InitRewrite /\ [][NextRewrite]_vars

(***************************************************************************)
(* Properties of the handler (specification Spec).                         *)
(***************************************************************************)

\* C1: a GET or POST request whose url parameter is present but malformed
\* (it does not percent-decode, the decoded string does not start with
\* http:// or https://, or it does not parse as a URL) is answered with
\* status 400, and no fetch is issued at any point of handling it.
C1_MalformedUrlRejected ==
  LET d == decodeURIComponent(req.url)
      malformed == /\ req.url # Absent
                   /\ req.url # <<>>
                   /\ ~d.ok \/ ~HasHttpScheme(d.val) \/ ~ParseAbsolute(d.val).ok
  IN (req.method \in {<<"G","E","T">>, <<"P","O","S","T">>} /\ malformed)
       => /\ connections = <<>>
          /\ pc \in {"start", "done"}
          /\ pc = "done" => status = 400

\* A request whose url parameter holds a truncated escape has been answered 400.
C1_Witness ==
  /\ pc = "done"
  /\ status = 400
  /\ req.method = <<"G","E","T">>
  /\ req.url = <<"%","E","0","%","A","4","%","A">>
  /\ connections = <<>>

\* C2: a GET or POST request whose validated target has a hostname of the
\* deny-list (localhost, the private and link-local IPv4 ranges, an IPv6
\* loopback, link-local or unique-local literal, a named metadata host) is
\* answered with status 403, and no fetch is issued.
C2_DenyListedRejected ==
  LET e == Entry(req)
      h == e.parsedUrl.hostname
      address == IF Len(h) > 0 /\ h[1] = "[" THEN SubSeq(h, 2, Len(h) - 1) ELSE h
  IN (e.parsedUrl.ok /\ Blocked([hostname |-> address]))
       => /\ connections = <<>>
          /\ pc = "done" => status = 403

\* C3: a request that passed validation and the guard is not left waiting for
\* the upstream once the deadline has passed, whether the response headers
\* have arrived or not: by then the call was cancelled and answered.
C3_AnsweredByDeadline == now > Deadline => pc = "done"

\* C4: when the upstream declares a Content-Length above 10 MiB the handler
\* answers 413 and the read of the body is never started.
C4_DeclaredTooLargeYields413 ==
  LET contentLength == upstream.contentLength
      declared == /\ contentLength # Absent
                  /\ Len(contentLength) > 0
                  /\ \A i \in 1..Len(contentLength) : IsDigit(contentLength[i])
  IN (declared /\ DigitsValue(contentLength, 1, Len(contentLength), 10, 0) > MaxBodyBytes)
       => /\ pc = "done"
          /\ status = 413
          /\ ~bodyStarted

\* The upstream declared 11 MiB and was answered 413 with no body read.
C4_Witness ==
  /\ upstream.contentLength = <<"1","1","5","3","4","3","3","6">>
  /\ status = 413
  /\ ~bodyStarted

\* C9: every host the fetch connects to, redirect hops included, passes the
\* deny-list check.
C9_EveryHopPassesGuard ==
  \A i \in 1..Len(connections) : ~Blocked([hostname |-> connections[i]])

\* C10: the upstream body the handler reads and answers 200 with is at most
\* 10 MiB long, whatever Content-Length the upstream sent or did not send.
C10_BodyWithinCap == status = 200 => BodyLength(upstream) <= MaxBodyBytes

\* C12: the branch is chosen by the declared content type first (text/html,
\* text/css, javascript or ecmascript) and by the .css or .js extension of the
\* final URL's path only when the content type names none of the three; any
\* other response is passed through with its body and content type unchanged.
\* Stated of every answer made from an upstream body.
C12_ContentTypeBeforeExtension ==
  (pc = "done" /\ status = 200 /\ bodyStarted)
    => LET contentType == IF upstream.contentType = Absent THEN <<>> ELSE upstream.contentType
           base == [current EXCEPT !.hash = <<>>]
           declared ==
             IF includes(contentType, <<"t","e","x","t","/","h","t","m","l">>) THEN "html"
             ELSE IF includes(contentType, <<"t","e","x","t","/","c","s","s">>) THEN "css"
             ELSE IF includes(contentType, <<"j","a","v","a","s","c","r","i","p","t">>) \/ includes(contentType, <<"e","c","m","a","s","c","r","i","p","t">>)
             THEN "js"
             ELSE IF endsWith(base.pathname, <<".","c","s","s">>) THEN "css"
             ELSE IF endsWith(base.pathname, <<".","j","s">>) THEN "js"
             ELSE "passthrough"
       IN /\ resType = ResponseType(declared, contentType)
          /\ resBody.text = Rewrite(declared, upstream.text, base, ProxyBaseOf(req))

(***************************************************************************)
(* Properties of the rewrite branches (specification SpecRewrite).         *)
(***************************************************************************)

\* C5: after the HTML rewrite every listed attribute of a tag whose value is
\* not terminal has the value proxyBase + encodeURIComponent(the value
\* resolved against the base), also when the tag carries several of them.
C5_EveryAttributeRewritten ==
  (doc.kind = "html" /\ passes >= 1)
    => \A k \in 1..Len(doc.parts) :
         ~AttrTerminal(doc.parts[k][2], doc.proxyBase)
           => includes(text,
                       doc.parts[k][1] \o <<"=","\"">>
                         \o Proxied(doc.proxyBase, href(ParseRelative(doc.parts[k][2], doc.base)))
                         \o doc.parts[k][3] \o <<"\"">>)

\* C6: the HTML rewrite applied to a document that holds proxy-prefixed URLs
\* (its own output included) encodes none of them a second time: the result
\* holds a proxy URL of a proxy URL only where its input already did.
C6_NoSecondEncoding ==
  (doc.kind = "html" /\ passes >= 1)
    => (includes(text, Proxied(doc.proxyBase, doc.proxyBase))
          => includes(prev, Proxied(doc.proxyBase, doc.proxyBase)))

\* C7: the CSS rewrite of @import "foo.css" against the base
\* http://x.com/a/b/ produces @import "<proxyBase><encoded
\* http://x.com/a/b/foo.css>", with the quote kept, and applying it again
\* does not rewrite the reference a second time.
C7_ImportRewrittenOnce ==
  (/\ doc.kind = "css"
   /\ doc.text = <<"@","i","m","p","o","r","t"," ","\"","f","o","o",".","c","s","s","\"">>
   /\ doc.base = ParseAbsolute(<<"h","t","t","p",":","/","/","x",".","c","o","m","/","a","/","b","/">>)
   /\ passes >= 1)
    => text = <<"@","i","m","p","o","r","t"," ","\"","h","t","t","p","s",":","/","/","p","/","a","p","i","/","r","e","p","?","u","r","l","=","h","t","t","p","%","3","A","%","2","F","%","2","F","x",".","c","o","m","%","2","F","a","%","2","F","b","%","2","F","f","o","o",".","c","s","s","\"">>

\* The import has been rewritten, and rewritten again.
C7_Witness ==
  /\ doc.kind = "css"
  /\ doc.text = <<"@","i","m","p","o","r","t"," ","\"","f","o","o",".","c","s","s","\"">>
  /\ passes = 2
  /\ prev # doc.text
  /\ text = prev

\* C7 as the specification words it: the reference resolved to
\* http://x.com/a/foo.css.
C7_ImportResolvedAgainstParent ==
  (/\ doc.kind = "css"
   /\ doc.text = <<"@","i","m","p","o","r","t"," ","\"","f","o","o",".","c","s","s","\"">>
   /\ doc.base = ParseAbsolute(<<"h","t","t","p",":","/","/","x",".","c","o","m","/","a","/","b","/">>)
   /\ passes >= 1)
    => text = <<"@","i","m","p","o","r","t"," ","\"","h","t","t","p","s",":","/","/","p","/","a","p","i","/","r","e","p","?","u","r","l","=","h","t","t","p","%","3","A","%","2","F","%","2","F","x",".","c","o","m","%","2","F","a","%","2","F","f","o","o",".","c","s","s","\"">>

\* C8: the JS rewrite leaves a bare specifier as it is and rewrites a
\* specifier that is absolute or starts with /, ./ or ../ to proxyBase +
\* encodeURIComponent(the specifier resolved against the base), in the
\* dynamic, the static and the side-effect form of import.
C8_SpecifiersRewritten ==
  (doc.kind = "js" /\ passes = 1)
    => LET spec == doc.parts[1][2]
           rewritable == \E p \in {<<"h","t","t","p",":","/","/">>, <<"h","t","t","p","s",":","/","/">>, <<"/">>, <<".","/">>, <<".",".","/">>} :
                           startsWith(spec, p)
       IN text = RenderImport(doc.parts[1][1],
                              IF rewritable
                              THEN Proxied(doc.proxyBase, href(ParseRelative(spec, doc.base)))
                              ELSE spec,
                              doc.parts[1][3])

\* C11: in the HTML branch the url(...) pass changes only references inside
\* <style> blocks and style= attributes: the injected shim is in the output
\* exactly as generated, and a document without any style block or style
\* attribute leaves the pass as it entered it.
C11_UrlPassKeepsOtherText ==
  (doc.kind = "html" /\ passes = 1)
    => LET entered == RewriteAttributes(
                        InjectShim(RemoveBaseTags(doc.text), doc.base, doc.proxyBase),
                        doc.base, doc.proxyBase)
       IN /\ includes(toLowerCase(doc.text), <<"<","h","e","a","d">>)
               => includes(text, Shim(doc.base, doc.proxyBase))
          /\ (~includes(toLowerCase(doc.text), <<"s","t","y","l","e">>)
                /\ ~includes(toLowerCase(doc.text), <<"<","h","e","a","d">>))
               => text = entered

====
